---- MODULE Spec2Model ----
(***************************************************************************)
(* A model of three parts of py-moodle:                                    *)
(*   - py_moodle/permissions.py: get_user_role and the requires_role gate  *)
(*   - py_moodle/site.py: get_site_info and the SiteInfo record            *)
(*   - example_script_with_progressbar.py: main, and the temporary-course  *)
(*     fixture of tests/conftest.py                                        *)
(* Each part has its own specification (SpecRole, SpecSite, SpecScript);   *)
(* the variables of the other parts stay at their initial values.          *)
(***************************************************************************)
EXTENDS Integers, Sequences, FiniteSets, TLC

VARIABLES
    cache,      \* permissions: session -> the _moodle_role attribute (None: unset)
    returned,   \* permissions: session -> the role its first completed lookup returned
    last,       \* permissions: the record of the most recent call
    siteResp,   \* site: what the platform answers to core_webservice_get_site_info
    siteLast,   \* site: the record of the most recent get_site_info call
    program,    \* script: "script" (main of the example) or "fixture" (conftest)
    pc,         \* script: the statement main (or the fixture) is at
    numCourses, \* script: NUM_COURSES_TO_CREATE as configured for this run
    sesskey,    \* script: the session key taken from the login
    course_i,   \* script: courses the main loop has begun
    step_j,     \* script: iterations done of the inner loop at pc
    course_id,  \* script: id of the course being filled
    folder_cmid,        \* script: cmid add_folder returned
    created_course_ids, \* script: the list main keeps for the cleanup
    errored,    \* script: the except clause of main ran
    nextId,     \* platform: next id it assigns
    courses,    \* platform: ids of the courses that exist
    folders,    \* platform: folder cmid -> the filenames listed in it
    createdByScript,    \* ids of the courses create_course returned to this run
    folderOps,  \* folder helper calls made for the current course
    deleteLog,  \* delete_course calls made by the cleanup
    lastCall    \* the most recent helper call and the session key it was given

roleVars == <<cache, returned, last>>
siteVars == <<siteResp, siteLast>>
scriptVars ==
    <<program, pc, numCourses, sesskey, course_i, step_j, course_id, folder_cmid,
      created_course_ids, errored, nextId, courses, folders, createdByScript,
      folderOps, deleteLog, lastCall>>
vars == <<roleVars, siteVars, scriptVars>>

None == "None"

(***************************************************************************)
(* Bounds of the model.                                                    *)
(***************************************************************************)
MaxArgs == 2        \* longest positional argument list of a wrapped call
MaxEntries == 2     \* longest functions / advancedfeatures list of a response
MaxCourses == 2     \* largest NUM_COURSES_TO_CREATE a run is configured with

(***************************************************************************)
(*                      py_moodle/permissions.py                           *)
(***************************************************************************)
Roles == {"user", "manager", "admin"}

ROLE_HIERARCHY == [user |-> 0, manager |-> 1, admin |-> 2]

Sessions == {"s1", "s2"}            \* requests.Session objects
Urls == {"u1", "u2"}                \* base URLs
Others == {"x"}                     \* any other argument value
PosValues == Sessions \cup Urls \cup Others
FuncResults == {"r1", "r2"}         \* what the wrapped function may return

\* Positional argument lists and keyword arguments of a call. A keyword that
\* is absent reads as None through kwargs.get.
ArgLists == UNION {[1..n -> PosValues] : n \in 0..MaxArgs}
KwArgs == [session : Sessions \cup {None}, base_url : Urls \cup {None}]
NoKw == [session |-> None, base_url |-> None]

\* What the platform answers to one GET: a transport failure (the request
\* raises), or a response with a status and, for the dashboard, the text
\* containing data-key="siteadminnode" or not.
DashAnswers == [exc : {FALSE}, status : {200, 403}, marker : BOOLEAN]
                  \cup {[exc |-> TRUE, status |-> 0, marker |-> FALSE]}
ManageAnswers == [exc : {FALSE}, status : {200, 403}, marker : {FALSE}]
                  \cup {[exc |-> TRUE, status |-> 0, marker |-> FALSE]}

DashboardGet(base_url) == <<"GET", base_url, "/my/">>
ManagementGet(base_url) == <<"GET", base_url, "/course/management.php">>

\* Faulty variant: the attribute is never found.
CachedRoleNever(session) == None
\* getattr(session, "_moodle_role", None)
CachedRole(session) == cache[session]

\* Faulty variant: an error status goes unnoticed.
RaisesForStatusNever(resp) == FALSE
\* resp.raise_for_status(): raises for a 4xx or 5xx status
RaisesForStatus(resp) == resp.status >= 400 /\ resp.status < 600

\* Faulty variant: a role outside the hierarchy for a refused management page.
ManageRoleStudent(manage_resp) == IF manage_resp.status = 200 THEN "manager" ELSE "student"
\* Faulty variant: the two roles exchanged.
ManageRoleSwapped(manage_resp) == IF manage_resp.status = 200 THEN "user" ELSE "manager"
\* role = "manager" if manage_resp.status_code == 200 else "user"
ManageRole(manage_resp) == IF manage_resp.status = 200 THEN "manager" ELSE "user"

\* get_user_role(session, base_url) against a platform that answers d to the
\* dashboard GET and m to the management GET. store is the value of
\* session._moodle_role when the call ends.
get_user_role(session, base_url, d, m) ==
    LET cached == CachedRole(session) IN
    IF cached # None
    THEN [outcome |-> "return", role |-> cached, gets |-> <<>>,
          store |-> cache[session]]
    ELSE IF d.exc
    THEN [outcome |-> "ConnectionError", role |-> None,
          gets |-> <<DashboardGet(base_url)>>, store |-> cache[session]]
    ELSE IF RaisesForStatus(d)
    THEN [outcome |-> "HTTPError", role |-> None,
          gets |-> <<DashboardGet(base_url)>>, store |-> cache[session]]
    ELSE IF d.marker
    THEN [outcome |-> "return", role |-> "admin",
          gets |-> <<DashboardGet(base_url)>>, store |-> "admin"]
    ELSE IF m.exc
    THEN [outcome |-> "ConnectionError", role |-> None,
          gets |-> <<DashboardGet(base_url), ManagementGet(base_url)>>,
          store |-> cache[session]]
    ELSE [outcome |-> "return", role |-> ManageRole(m),
          gets |-> <<DashboardGet(base_url), ManagementGet(base_url)>>,
          store |-> ManageRole(m)]

\* Faulty variant: the loop does not stop at the first Session.
FirstSessionLast(args) ==
    IF \E i \in 1..Len(args) : args[i] \in Sessions
    THEN args[CHOOSE i \in 1..Len(args) :
                /\ args[i] \in Sessions
                /\ \A j \in (i + 1)..Len(args) : args[j] \notin Sessions]
    ELSE None
\* for arg in args: if isinstance(arg, requests.Session): session = arg; break
FirstSession(args) ==
    IF \E i \in 1..Len(args) : args[i] \in Sessions
    THEN args[CHOOSE i \in 1..Len(args) :
                /\ args[i] \in Sessions
                /\ \A j \in 1..(i - 1) : args[j] \notin Sessions]
    ELSE None

\* session = kwargs.get("session"), else the first positional Session
LocateSession(args, kwargs) ==
    IF kwargs.session # None THEN kwargs.session ELSE FirstSession(args)

\* Faulty variant: args[idx] taken instead of args[idx + 1].
PositionalBaseUrlSame(args, session) ==
    IF \E i \in 1..Len(args) : args[i] = session
    THEN LET idx == CHOOSE i \in 1..Len(args) :
                      /\ args[i] = session
                      /\ \A j \in 1..(i - 1) : args[j] # session
         IN args[idx]
    ELSE None
\* idx = list(args).index(session); base_url = args[idx + 1] when there is one
PositionalBaseUrl(args, session) ==
    IF \E i \in 1..Len(args) : args[i] = session
    THEN LET idx == CHOOSE i \in 1..Len(args) :
                      /\ args[i] = session
                      /\ \A j \in 1..(i - 1) : args[j] # session
         IN IF Len(args) > idx THEN args[idx + 1] ELSE None
    ELSE None

\* base_url = kwargs.get("base_url"), else the positional argument after the session
LocateBaseUrl(args, kwargs, session) ==
    IF kwargs.base_url # None THEN kwargs.base_url
    ELSE IF session # None THEN PositionalBaseUrl(args, session)
    ELSE None

\* Faulty variant: the base URL is not tested.
NotLocatedSessionOnly(session, base_url) == session = None
\* if session is None or base_url is None: raise RoleError(...)
NotLocated(session, base_url) == session = None \/ base_url = None

\* Faulty variant: an equal rank is refused too.
RoleTooLowStrict(current_role, required) ==
    ROLE_HIERARCHY[current_role] <= ROLE_HIERARCHY[required]
\* if ROLE_HIERARCHY[current_role] < ROLE_HIERARCHY[required]: raise RoleError(...)
RoleTooLow(current_role, required) ==
    ROLE_HIERARCHY[current_role] < ROLE_HIERARCHY[required]

\* Faulty variant: func is called before the lookup and the rank check.
WrapperFuncFirst(r, required, args, kwargs, fres, session, base_url) ==
    [outcome |-> IF r.outcome # "return" THEN r.outcome
                 ELSE IF r.role \notin DOMAIN ROLE_HIERARCHY THEN "KeyError"
                 ELSE IF ROLE_HIERARCHY[r.role] < ROLE_HIERARCHY[required]
                 THEN "RoleError_role"
                 ELSE "return",
     value |-> IF r.outcome = "return" /\ r.role \in DOMAIN ROLE_HIERARCHY
                  /\ ROLE_HIERARCHY[r.role] >= ROLE_HIERARCHY[required]
               THEN fres ELSE None,
     session |-> session, base_url |-> base_url,
     lookup |-> <<session, base_url>>, role |-> r.role,
     gets |-> r.gets, store |-> r.store,
     funcCalls |-> << <<args, kwargs>> >>,
     events |-> <<"func", "get_user_role">>
                \o (IF r.outcome = "return" THEN <<"compare">> ELSE <<>>)]
\* The wrapper from line 86 on, r being what get_user_role did: the rank
\* check, then func(*args, **kwargs). ROLE_HIERARCHY[current_role] raises
\* KeyError for a role that is not a key of the dict. events lists, in the
\* order the wrapper reached them, the lookup (line 86), the rank comparison
\* (line 87) and the call of func (line 91).
WrapperAfterLookup(r, required, args, kwargs, fres, session, base_url) ==
    IF r.outcome # "return"
    THEN [outcome |-> r.outcome, value |-> None,
          session |-> session, base_url |-> base_url,
          lookup |-> <<session, base_url>>, role |-> None,
          gets |-> r.gets, store |-> r.store, funcCalls |-> <<>>,
          events |-> <<"get_user_role">>]
    ELSE IF r.role \notin DOMAIN ROLE_HIERARCHY
    THEN [outcome |-> "KeyError", value |-> None,
          session |-> session, base_url |-> base_url,
          lookup |-> <<session, base_url>>, role |-> r.role,
          gets |-> r.gets, store |-> r.store, funcCalls |-> <<>>,
          events |-> <<"get_user_role", "compare">>]
    ELSE IF RoleTooLow(r.role, required)
    THEN [outcome |-> "RoleError_role", value |-> None,
          session |-> session, base_url |-> base_url,
          lookup |-> <<session, base_url>>, role |-> r.role,
          gets |-> r.gets, store |-> r.store, funcCalls |-> <<>>,
          events |-> <<"get_user_role", "compare">>]
    ELSE [outcome |-> "return", value |-> fres,
          session |-> session, base_url |-> base_url,
          lookup |-> <<session, base_url>>, role |-> r.role,
          gets |-> r.gets, store |-> r.store,
          funcCalls |-> << <<args, kwargs>> >>,
          events |-> <<"get_user_role", "compare", "func">>]

\* The wrapper of requires_role(required)(func), called with args and kwargs;
\* fres is what func returns if it is called. store is what the located
\* session's _moodle_role holds when the call ends.
wrapper(required, args, kwargs, fres, d, m) ==
    LET session == LocateSession(args, kwargs)
        base_url == LocateBaseUrl(args, kwargs, session)
    IN
    IF NotLocated(session, base_url)
    THEN [outcome |-> "RoleError_config", value |-> None,
          session |-> session, base_url |-> base_url, lookup |-> <<>>,
          role |-> None, gets |-> <<>>, store |-> None, funcCalls |-> <<>>,
          events |-> <<>>]
    ELSE WrapperAfterLookup(get_user_role(session, base_url, d, m),
                            required, args, kwargs, fres, session, base_url)

NoAnswer == [exc |-> FALSE, status |-> 0, marker |-> FALSE]

\* The record kept of a call: its inputs (args, kwargs, required), what the
\* session held before it (cached: its _moodle_role; prior: the role its first
\* lookup returned), what the call did, the platform's answers (dash: what
\* the dashboard answers during the lookup; manage: the management page's
\* answer, when it was asked), fres, the result of func when it ran, and
\* events, the steps a wrapped call went through, in their order.
NoCall ==
    [op |-> "none", required |-> None, args |-> <<>>, kwargs |-> NoKw,
     fres |-> None, cached |-> None, prior |-> None, outcome |-> None,
     value |-> None, session |-> None, base_url |-> None, lookup |-> <<>>,
     role |-> None, gets |-> <<>>, funcCalls |-> <<>>, events |-> <<>>,
     dash |-> NoAnswer, manage |-> NoAnswer]

RoleInit ==
    /\ cache = [s \in Sessions |-> None]
    /\ returned = [s \in Sessions |-> None]
    /\ last = NoCall

\* A direct call get_user_role(session, base_url).
CallGetUserRole ==
    /\ last.op = "none"
    /\ \E s \in Sessions, u \in Urls, d \in DashAnswers, m \in ManageAnswers :
        \E r \in {get_user_role(s, u, d, m)} :
        /\ cache' = [cache EXCEPT ![s] = r.store]
        /\ returned' = [returned EXCEPT ![s] =
                IF @ = None /\ r.outcome = "return" THEN r.role ELSE @]
        /\ last' = [op |-> "get_user_role", required |-> None,
                    args |-> <<s, u>>, kwargs |-> NoKw, fres |-> None,
                    cached |-> cache[s], prior |-> returned[s],
                    outcome |-> r.outcome,
                    value |-> r.role, session |-> s, base_url |-> u,
                    lookup |-> <<s, u>>, role |-> r.role, gets |-> r.gets,
                    funcCalls |-> <<>>, events |-> <<>>, dash |-> d,
                    manage |-> IF Len(r.gets) = 2 THEN m ELSE NoAnswer]
        /\ UNCHANGED <<siteVars, scriptVars>>

\* A call of a function wrapped with requires_role(required).
CallWrapped ==
    /\ last.op = "none"
    /\ \E required \in Roles, args \in ArgLists, kwargs \in KwArgs,
       fres \in FuncResults, d \in DashAnswers, m \in ManageAnswers :
        \E w \in {wrapper(required, args, kwargs, fres, d, m)} :
        LET looked == w.lookup # <<>> IN
        /\ cache' = IF looked
                    THEN [cache EXCEPT ![w.session] = w.store]
                    ELSE cache
        /\ returned' = IF looked /\ w.role # None /\ returned[w.session] = None
                       THEN [returned EXCEPT ![w.session] = w.role]
                       ELSE returned
        /\ last' = [op |-> "wrapper", required |-> required,
                    args |-> args, kwargs |-> kwargs,
                    fres |-> IF w.funcCalls # <<>> THEN fres ELSE None,
                    cached |-> IF looked THEN cache[w.session] ELSE None,
                    prior |-> IF looked THEN returned[w.session] ELSE None,
                    outcome |-> w.outcome, value |-> w.value,
                    session |-> w.session, base_url |-> w.base_url,
                    lookup |-> w.lookup, role |-> w.role, gets |-> w.gets,
                    funcCalls |-> w.funcCalls, events |-> w.events,
                    dash |-> IF looked THEN d ELSE NoAnswer,
                    manage |-> IF Len(w.gets) = 2 THEN m ELSE NoAnswer]
        /\ UNCHANGED <<siteVars, scriptVars>>

\* The caller takes the outcome of the call and goes on to its next call.
Resume ==
    /\ last.op # "none"
    /\ last' = NoCall
    /\ UNCHANGED <<cache, returned, siteVars, scriptVars>>

(***************************************************************************)
(*                          py_moodle/site.py                              *)
(***************************************************************************)
\* The fields of the SiteInfo dataclass, in declaration order.
SiteInfoFields ==
    <<"sitename", "username", "firstname", "lastname", "fullname", "lang",
      "userid", "siteurl", "userpictureurl", "functions", "downloadfiles",
      "uploadfiles", "release", "version", "mobilecssurl", "advancedfeatures",
      "usercanmanageownfiles", "userquota", "usermaxuploadfilesize",
      "userhomepage", "userprivateaccesskey", "siteid", "sitecalendartype",
      "usercalendartype", "userissiteadmin", "theme", "limitconcurrentlogins",
      "policyagreed">>

SiteInfoFieldSet == {SiteInfoFields[i] : i \in 1..Len(SiteInfoFields)}
ListFields == {"functions", "advancedfeatures"}
ScalarFields == SiteInfoFieldSet \ ListFields

\* The fields of the SiteFunction and AdvancedFeature dataclasses.
SiteFunctionFields == {"name", "version"}
AdvancedFeatureFields == {"name", "value"}

\* Raw entries the platform may send: complete ones, and one that omits a field.
RawFunctions ==
    {[name |-> "fa", version |-> "1"], [name |-> "fb", version |-> "2"],
     [name |-> "fa"]}
RawFeatures ==
    {[name |-> "xa", value |-> 0], [name |-> "xb", value |-> 1],
     [value |-> 1]}
RawFunctionLists == UNION {[1..n -> RawFunctions] : n \in 0..MaxEntries}
RawFeatureLists == UNION {[1..n -> RawFeatures] : n \in 0..MaxEntries}
ScalarSeeds == {"a", "b"}

\* A response of core_webservice_get_site_info: the documented fields, all but
\* the omitted one (None: nothing omitted).
MakeResponse(omitted, fs, afs, seed) ==
    [f \in SiteInfoFieldSet \ {omitted} |->
        IF f = "functions" THEN fs
        ELSE IF f = "advancedfeatures" THEN afs
        ELSE <<f, seed>>]
Responses ==
    {MakeResponse(om, fs, afs, seed) :
        om \in SiteInfoFieldSet \cup {None}, fs \in RawFunctionLists,
        afs \in RawFeatureLists, seed \in ScalarSeeds}

\* SiteFunction(**function): a dataclass constructor takes exactly its fields.
SiteFunctionAccepts(function) == DOMAIN function = SiteFunctionFields
SiteFunction(function) ==
    [type |-> "SiteFunction", name |-> function.name,
     version |-> function.version]

\* AdvancedFeature(**feature)
AdvancedFeatureAccepts(feature) == DOMAIN feature = AdvancedFeatureFields
AdvancedFeature(feature) ==
    [type |-> "AdvancedFeature", name |-> feature.name,
     value |-> feature.value]

\* Faulty variant: missing fields are let through.
SiteInfoAcceptsLenient(response) == TRUE
\* SiteInfo(**response): every field is required and no other is accepted.
SiteInfoAccepts(response) == DOMAIN response = SiteInfoFieldSet

\* Faulty variant: firstname takes the value of lastname.
SiteInfoSwapped(response) ==
    [f \in DOMAIN response |->
        IF f = "firstname" /\ "lastname" \in DOMAIN response
        THEN response["lastname"] ELSE response[f]]
\* The record SiteInfo(**response) builds from the keys it is given.
SiteInfo(response) == [f \in DOMAIN response |-> response[f]]

\* [SiteFunction(**function) for function in response["functions"]]
MapFunctions(raw) == [i \in 1..Len(raw) |-> SiteFunction(raw[i])]
MapFeatures(raw) == [i \in 1..Len(raw) |-> AdvancedFeature(raw[i])]

\* get_site_info(session) when the platform answers response to the API call,
\* or the call raises (callFails).
get_site_info(response, callFails) ==
    LET calls == <<"core_webservice_get_site_info">> IN
    IF callFails
    THEN [outcome |-> "CallError", value |-> None, calls |-> calls]
    ELSE IF "functions" \notin DOMAIN response
    THEN [outcome |-> "KeyError", value |-> None, calls |-> calls]
    ELSE IF \E i \in 1..Len(response["functions"]) :
                ~SiteFunctionAccepts(response["functions"][i])
    THEN [outcome |-> "TypeError", value |-> None, calls |-> calls]
    ELSE IF "advancedfeatures" \notin DOMAIN response
    THEN [outcome |-> "KeyError", value |-> None, calls |-> calls]
    ELSE IF \E i \in 1..Len(response["advancedfeatures"]) :
                ~AdvancedFeatureAccepts(response["advancedfeatures"][i])
    THEN [outcome |-> "TypeError", value |-> None, calls |-> calls]
    ELSE LET reshaped ==
                [f \in DOMAIN response |->
                    IF f = "functions" THEN MapFunctions(response[f])
                    ELSE IF f = "advancedfeatures" THEN MapFeatures(response[f])
                    ELSE response[f]]
         IN IF ~SiteInfoAccepts(reshaped)
            THEN [outcome |-> "TypeError", value |-> None, calls |-> calls]
            ELSE [outcome |-> "return", value |-> SiteInfo(reshaped),
                  calls |-> calls]

NoSiteCall == [outcome |-> "none", value |-> None, calls |-> <<>>]

SiteInit ==
    /\ siteResp \in Responses
    /\ siteLast = NoSiteCall

\* One call of get_site_info.
CallGetSiteInfo ==
    /\ siteLast.outcome = "none"
    /\ \E callFails \in BOOLEAN :
          siteLast' = get_site_info(siteResp, callFails)
    /\ UNCHANGED <<roleVars, siteResp, scriptVars>>

(***************************************************************************)
(*     example_script_with_progressbar.py and the fixture of conftest.py   *)
(***************************************************************************)
NUM_SECTIONS_TO_ADD == 2
NUM_LABELS_TO_ADD == 2
FILES_TO_UPLOAD_TO_FOLDER == <<"sample.pdf", "test.jpg">>
FILE_TO_RENAME == "test.jpg"
NEW_FILENAME_FOR_RENAME == "renamed_T.jpg"

\* The session key a login yields: a key, or none (the fixture tests for it).
SessKeys == {"", "k"}

\* Helpers that post to the platform's sesskey-protected endpoints.
CsrfOps ==
    {"create_course", "create_section", "add_label", "add_assign",
     "add_scorm", "add_folder", "add_file_to_folder",
     "rename_file_in_folder", "delete_course"}

Called(op) == lastCall' = [op |-> op, sesskey |-> sesskey]

\* What the platform does for the folder helpers: add_folder makes an empty
\* folder, add_file_to_folder lists the file, rename_file_in_folder replaces
\* the old name by the new one and needs the old name to be listed.
PlatformAddFolder(fs, cmid) == (cmid :> {}) @@ fs
PlatformAddFile(fs, cmid, filename) ==
    [fs EXCEPT ![cmid] = @ \cup {filename}]
PlatformCanRename(fs, cmid, old, new) ==
    cmid \in DOMAIN fs /\ old \in fs[cmid] /\ new \notin fs[cmid]
PlatformRename(fs, cmid, old, new) ==
    [fs EXCEPT ![cmid] = (@ \ {old}) \cup {new}]
\* delete_course(..., force=True) removes the course
PlatformDeleteCourse(cs, id) == cs \ {id}

\* An exception leaves the try block of main: the except clause prints it,
\* then the finally clause runs.
Raise ==
    /\ pc' = "finally"
    /\ errored' = TRUE

ScriptInit ==
    /\ program \in {"script", "fixture"}
    /\ pc = IF program = "script" THEN "start" ELSE "fx_login"
    /\ numCourses \in 1..MaxCourses
    /\ sesskey = None
    /\ course_i = 0
    /\ step_j = 0
    /\ course_id = 0
    /\ folder_cmid = 0
    /\ created_course_ids = <<>>
    /\ errored = FALSE
    /\ nextId = 1
    /\ courses = {}
    /\ folders = <<>>
    /\ createdByScript = {}
    /\ folderOps = <<>>
    /\ deleteLog = <<>>
    /\ lastCall = [op |-> "none", sesskey |-> None]

\* if not FIXTURES_DIR.is_dir(): ... return
CheckFixturesDir ==
    /\ pc = "start"
    /\ \E isDir \in BOOLEAN : pc' = IF isDir THEN "login" ELSE "done"
    /\ UNCHANGED <<roleVars, siteVars, program, numCourses, sesskey, course_i, step_j,
                   course_id, folder_cmid, created_course_ids, errored, nextId,
                   courses, folders, createdByScript, folderOps, deleteLog,
                   lastCall>>

\* ms = MoodleSession.get(MOODLE_ENV); sesskey = ms.sesskey; main returns on
\* MoodleSessionError.
Login ==
    /\ pc = "login"
    /\ \/ \E key \in SessKeys : sesskey' = key /\ pc' = "loop"
       \/ sesskey' = sesskey /\ pc' = "done"
    /\ UNCHANGED <<roleVars, siteVars, program, numCourses, course_i, step_j, course_id,
                   folder_cmid, created_course_ids, errored, nextId, courses,
                   folders, createdByScript, folderOps, deleteLog, lastCall>>

\* for i in range(NUM_COURSES_TO_CREATE)
LoopHead ==
    /\ pc = "loop"
    /\ pc' = IF course_i < numCourses THEN "create" ELSE "finally"
    /\ UNCHANGED <<roleVars, siteVars, program, numCourses, sesskey, course_i, step_j,
                   course_id, folder_cmid, created_course_ids, errored, nextId,
                   courses, folders, createdByScript, folderOps, deleteLog,
                   lastCall>>

\* Faulty variant: the new id is put in front of the list.
RecordCourseIdFirst(ids, id) == <<id>> \o ids
\* created_course_ids.append(course_id)
RecordCourseId(ids, id) == Append(ids, id)

\* course = create_course(...); created_course_ids.append(course["id"])
CreateCourse ==
    /\ pc = "create"
    /\ Called("create_course")
    /\ \/ /\ course_id' = nextId
          /\ nextId' = nextId + 1
          /\ courses' = courses \cup {nextId}
          /\ createdByScript' = createdByScript \cup {nextId}
          /\ created_course_ids' = RecordCourseId(created_course_ids, nextId)
          /\ folderOps' = <<>>
          /\ folder_cmid' = 0
          /\ pc' = "get_course"
          /\ UNCHANGED errored
       \/ /\ Raise
          /\ UNCHANGED <<course_id, nextId, courses, createdByScript,
                         created_course_ids, folderOps, folder_cmid>>
    /\ UNCHANGED <<roleVars, siteVars, program, numCourses, sesskey, course_i, step_j,
                   folders, deleteLog>>

\* course_contents = get_course(...); first_section = next(...); continue when
\* there is none
GetCourse ==
    /\ pc = "get_course"
    /\ Called("get_course")
    /\ \/ pc' = "sections" /\ course_i' = course_i /\ step_j' = 0 /\ UNCHANGED errored
       \/ pc' = "loop" /\ course_i' = course_i + 1 /\ step_j' = step_j /\ UNCHANGED errored
       \/ Raise /\ UNCHANGED <<course_i, step_j>>
    /\ UNCHANGED <<roleVars, siteVars, program, numCourses, sesskey,
                   course_id, folder_cmid, created_course_ids, nextId, courses,
                   folders, createdByScript, folderOps, deleteLog>>

\* for _ in range(NUM_SECTIONS_TO_ADD): create_section(...)
AddSections ==
    /\ pc = "sections"
    /\ IF step_j < NUM_SECTIONS_TO_ADD
       THEN /\ Called("create_section")
            /\ \/ step_j' = step_j + 1 /\ UNCHANGED <<pc, errored>>
               \/ Raise /\ UNCHANGED step_j
       ELSE pc' = "labels" /\ step_j' = 0 /\ UNCHANGED <<errored, lastCall>>
    /\ UNCHANGED <<roleVars, siteVars, program, numCourses, sesskey, course_i,
                   course_id, folder_cmid, created_course_ids, nextId, courses,
                   folders, createdByScript, folderOps, deleteLog>>

\* for j in range(NUM_LABELS_TO_ADD): add_label(...)
AddLabels ==
    /\ pc = "labels"
    /\ IF step_j < NUM_LABELS_TO_ADD
       THEN /\ Called("add_label")
            /\ \/ step_j' = step_j + 1 /\ UNCHANGED <<pc, errored>>
               \/ Raise /\ UNCHANGED step_j
       ELSE pc' = "assign" /\ step_j' = 0 /\ UNCHANGED <<errored, lastCall>>
    /\ UNCHANGED <<roleVars, siteVars, program, numCourses, sesskey, course_i,
                   course_id, folder_cmid, created_course_ids, nextId, courses,
                   folders, createdByScript, folderOps, deleteLog>>

\* add_assign(...); a MoodleAssignError is printed and the run goes on
AddAssign ==
    /\ pc = "assign"
    /\ Called("add_assign")
    /\ \/ pc' = "scorm" /\ UNCHANGED errored
       \/ Raise
    /\ UNCHANGED <<roleVars, siteVars, program, numCourses, sesskey, course_i, step_j,
                   course_id, folder_cmid, created_course_ids, nextId, courses,
                   folders, createdByScript, folderOps, deleteLog>>

\* add_scorm(...) when the package exists; a MoodleScormError is printed
AddScorm ==
    /\ pc = "scorm"
    /\ \/ pc' = "folder" /\ UNCHANGED <<errored, lastCall>>
       \/ Called("add_scorm") /\ pc' = "folder" /\ UNCHANGED errored
       \/ Called("add_scorm") /\ Raise
    /\ UNCHANGED <<roleVars, siteVars, program, numCourses, sesskey, course_i, step_j,
                   course_id, folder_cmid, created_course_ids, nextId, courses,
                   folders, createdByScript, folderOps, deleteLog>>

FolderOp(op, cmid, file, ok) ==
    [op |-> op, cmid |-> cmid, file |-> file, ok |-> ok]

\* folder_cmid = add_folder(...); a MoodleFolderError ends step 6
AddFolder ==
    /\ pc = "folder"
    /\ Called("add_folder")
    /\ \/ /\ folder_cmid' = nextId
          /\ nextId' = nextId + 1
          /\ folders' = PlatformAddFolder(folders, nextId)
          /\ folderOps' = Append(folderOps, FolderOp("add_folder", nextId, None, TRUE))
          /\ pc' = "files"
          /\ step_j' = 0
          /\ UNCHANGED errored
       \/ /\ folderOps' = Append(folderOps, FolderOp("add_folder", 0, None, FALSE))
          /\ \/ pc' = "summary" /\ UNCHANGED errored
             \/ Raise
          /\ UNCHANGED <<folder_cmid, nextId, folders, step_j>>
    /\ UNCHANGED <<roleVars, siteVars, program, numCourses, sesskey, course_i,
                   course_id, created_course_ids, courses, createdByScript,
                   deleteLog>>

\* for filename in FILES_TO_UPLOAD_TO_FOLDER: skip a missing file, else
\* add_file_to_folder(session, base_url, sesskey, folder_cmid, path)
AddFiles ==
    /\ pc = "files"
    /\ IF step_j < Len(FILES_TO_UPLOAD_TO_FOLDER)
       THEN LET filename == FILES_TO_UPLOAD_TO_FOLDER[step_j + 1] IN
            \/ /\ step_j' = step_j + 1
               /\ folderOps' = Append(folderOps, FolderOp("skip", folder_cmid, filename, TRUE))
               /\ UNCHANGED <<pc, errored, folders, lastCall>>
            \/ /\ Called("add_file_to_folder")
               /\ step_j' = step_j + 1
               /\ folders' = PlatformAddFile(folders, folder_cmid, filename)
               /\ folderOps' = Append(folderOps,
                      FolderOp("add_file_to_folder", folder_cmid, filename, TRUE))
               /\ UNCHANGED <<pc, errored>>
            \/ /\ Called("add_file_to_folder")
               /\ folderOps' = Append(folderOps,
                      FolderOp("add_file_to_folder", folder_cmid, filename, FALSE))
               /\ \/ pc' = "summary" /\ UNCHANGED errored
                  \/ Raise
               /\ UNCHANGED <<step_j, folders>>
       ELSE /\ pc' = "rename"
            /\ UNCHANGED <<step_j, errored, folders, folderOps, lastCall>>
    /\ UNCHANGED <<roleVars, siteVars, program, numCourses, sesskey, course_i,
                   course_id, folder_cmid, created_course_ids, nextId, courses,
                   createdByScript, deleteLog>>

\* Faulty variant: the course id passed where the folder's cmid belongs.
RenameCmidOfCourse == course_id
\* The folder rename_file_in_folder is pointed at.
RenameCmid == folder_cmid

\* rename_file_in_folder(session, base_url, sesskey, folder_cmid,
\*     old_filename=FILE_TO_RENAME, new_filename=NEW_FILENAME_FOR_RENAME)
RenameFile ==
    /\ pc = "rename"
    /\ Called("rename_file_in_folder")
    /\ \/ /\ PlatformCanRename(folders, RenameCmid, FILE_TO_RENAME,
                               NEW_FILENAME_FOR_RENAME)
          /\ folders' = PlatformRename(folders, RenameCmid, FILE_TO_RENAME,
                                       NEW_FILENAME_FOR_RENAME)
          /\ folderOps' = Append(folderOps,
                FolderOp("rename_file_in_folder", RenameCmid, FILE_TO_RENAME, TRUE))
          /\ pc' = "summary"
          /\ UNCHANGED errored
       \/ /\ folderOps' = Append(folderOps,
                FolderOp("rename_file_in_folder", RenameCmid, FILE_TO_RENAME, FALSE))
          /\ \/ pc' = "summary" /\ UNCHANGED errored
             \/ Raise
          /\ UNCHANGED folders
    /\ UNCHANGED <<roleVars, siteVars, program, numCourses, sesskey, course_i, step_j,
                   course_id, folder_cmid, created_course_ids, nextId, courses,
                   createdByScript, deleteLog>>

\* final_course_contents = get_course(...); print_course_summary(...)
Summary ==
    /\ pc = "summary"
    /\ Called("get_course")
    /\ \/ pc' = "loop" /\ course_i' = course_i + 1 /\ UNCHANGED errored
       \/ Raise /\ UNCHANGED course_i
    /\ UNCHANGED <<roleVars, siteVars, program, numCourses, sesskey, step_j,
                   course_id, folder_cmid, created_course_ids, nextId, courses,
                   folders, createdByScript, folderOps, deleteLog>>

\* finally: if created_course_ids: (the cleanup loop)
Finally ==
    /\ pc = "finally"
    /\ pc' = IF created_course_ids # <<>> THEN "cleanup" ELSE "done"
    /\ step_j' = 0
    /\ UNCHANGED <<roleVars, siteVars, program, numCourses, sesskey, course_i,
                   course_id, folder_cmid, created_course_ids, errored, nextId,
                   courses, folders, createdByScript, folderOps, deleteLog,
                   lastCall>>

\* Faulty variant: the error ends the cleanup loop.
AfterDeleteErrorStop(n) == Len(created_course_ids)
\* Where the cleanup loop goes after delete_course raised at position n (from
\* 0): the except clause inside the loop prints the error and the loop goes on.
AfterDeleteError(n) == n + 1

\* for course_id in created_course_ids:
\*     try: delete_course(session, base_url, sesskey, course_id, force=True)
\*     except Exception as e: (print)
Cleanup ==
    /\ pc = "cleanup"
    /\ IF step_j < Len(created_course_ids)
       THEN LET id == created_course_ids[step_j + 1] IN
            /\ Called("delete_course")
            /\ \/ /\ courses' = PlatformDeleteCourse(courses, id)
                  /\ deleteLog' = Append(deleteLog,
                        [id |-> id, force |-> TRUE, ok |-> TRUE])
                  /\ step_j' = step_j + 1
               \/ /\ deleteLog' = Append(deleteLog,
                        [id |-> id, force |-> TRUE, ok |-> FALSE])
                  /\ step_j' = AfterDeleteError(step_j)
                  /\ UNCHANGED courses
            /\ UNCHANGED pc
       ELSE /\ pc' = "done"
            /\ UNCHANGED <<step_j, courses, deleteLog, lastCall>>
    /\ UNCHANGED <<roleVars, siteVars, program, numCourses, sesskey, course_i,
                   course_id, folder_cmid, created_course_ids, errored, nextId,
                   folders, createdByScript, folderOps>>

\* temporary_course_for_labels: moodle_session = login(...)
FixtureLogin ==
    /\ pc = "fx_login"
    /\ \/ \E key \in SessKeys : sesskey' = key /\ pc' = "fx_check"
       \/ sesskey' = sesskey /\ pc' = "done"
    /\ UNCHANGED <<roleVars, siteVars, program, numCourses, course_i, step_j, course_id,
                   folder_cmid, created_course_ids, errored, nextId, courses,
                   folders, createdByScript, folderOps, deleteLog, lastCall>>

\* if not moodle_session.sesskey: pytest.skip(...)
FixtureCheckSesskey ==
    /\ pc = "fx_check"
    /\ pc' = IF sesskey = "" THEN "done" ELSE "fx_create"
    /\ UNCHANGED <<roleVars, siteVars, program, numCourses, sesskey, course_i, step_j,
                   course_id, folder_cmid, created_course_ids, errored, nextId,
                   courses, folders, createdByScript, folderOps, deleteLog,
                   lastCall>>

\* course = create_course(session=moodle_session, ...); yield course
FixtureCreateCourse ==
    /\ pc = "fx_create"
    /\ Called("create_course")
    /\ \/ /\ course_id' = nextId
          /\ nextId' = nextId + 1
          /\ courses' = courses \cup {nextId}
          /\ createdByScript' = createdByScript \cup {nextId}
          /\ pc' = "fx_yield"
       \/ /\ pc' = "done"
          /\ UNCHANGED <<course_id, nextId, courses, createdByScript>>
    /\ UNCHANGED <<roleVars, siteVars, program, numCourses, sesskey, course_i, step_j,
                   folder_cmid, created_course_ids, errored, folders,
                   folderOps, deleteLog>>

\* (the tests of the module run) delete_course(moodle_session, base_url,
\* sesskey, course["id"], force=True)
FixtureDeleteCourse ==
    /\ pc = "fx_yield"
    /\ Called("delete_course")
    /\ \/ /\ courses' = PlatformDeleteCourse(courses, course_id)
          /\ deleteLog' = Append(deleteLog,
                [id |-> course_id, force |-> TRUE, ok |-> TRUE])
       \/ /\ deleteLog' = Append(deleteLog,
                [id |-> course_id, force |-> TRUE, ok |-> FALSE])
          /\ UNCHANGED courses
    /\ pc' = "done"
    /\ UNCHANGED <<roleVars, siteVars, program, numCourses, sesskey, course_i, step_j,
                   course_id, folder_cmid, created_course_ids, errored, nextId,
                   folders, createdByScript, folderOps>>

(***************************************************************************)
(*                           Specifications                                *)
(***************************************************************************)
RoleIdle == RoleInit
SiteIdle == siteResp = None /\ siteLast = NoSiteCall
ScriptIdle ==
    /\ program = "none"
    /\ pc = "done"
    /\ numCourses = 0
    /\ sesskey = None
    /\ course_i = 0
    /\ step_j = 0
    /\ course_id = 0
    /\ folder_cmid = 0
    /\ created_course_ids = <<>>
    /\ errored = FALSE
    /\ nextId = 1
    /\ courses = {}
    /\ folders = <<>>
    /\ createdByScript = {}
    /\ folderOps = <<>>
    /\ deleteLog = <<>>
    /\ lastCall = [op |-> "none", sesskey |-> None]

InitRole == RoleInit /\ SiteIdle /\ ScriptIdle
NextRole == CallGetUserRole \/ CallWrapped \/ Resume
SpecRole == InitRole /\ [][NextRole]_vars

InitSite == SiteInit /\ RoleIdle /\ ScriptIdle
NextSite == CallGetSiteInfo
SpecSite == InitSite /\ [][NextSite]_vars

InitScript == ScriptInit /\ RoleIdle /\ SiteIdle
NextScript ==
    \/ CheckFixturesDir
    \/ Login
    \/ LoopHead
    \/ CreateCourse
    \/ GetCourse
    \/ AddSections
    \/ AddLabels
    \/ AddAssign
    \/ AddScorm
    \/ AddFolder
    \/ AddFiles
    \/ RenameFile
    \/ Summary
    \/ Finally
    \/ Cleanup
    \/ FixtureLogin
    \/ FixtureCheckSesskey
    \/ FixtureCreateCourse
    \/ FixtureDeleteCourse
SpecScript == InitScript /\ [][NextScript]_vars

(***************************************************************************)
(*              Properties of the permission gate (SpecRole)               *)
(***************************************************************************)
LastIsWrapper == last.op = "wrapper"
LastIsLookup == last.op = "get_user_role"

\* C1: a wrapped call whose session and base URL were located and whose
\* lookup gave the current role C raises RoleError without running the
\* function when rank(C) < rank(R); when rank(C) >= rank(R) it calls the
\* function once with the very positional and keyword arguments of the call
\* and returns the function's result.
C1_GateByRank ==
    (LastIsWrapper /\ last.role \in Roles) =>
        IF ROLE_HIERARCHY[last.role] < ROLE_HIERARCHY[last.required]
        THEN /\ last.outcome = "RoleError_role"
             /\ last.funcCalls = <<>>
        ELSE /\ last.outcome = "return"
             /\ last.funcCalls = << <<last.args, last.kwargs>> >>
             /\ last.value = last.fres

\* An admin calls a function that requires manager and gets its result.
C1_Witness ==
    /\ LastIsWrapper
    /\ last.role = "admin"
    /\ last.required = "manager"
    /\ last.args = <<"s1", "u1">>
    /\ last.outcome = "return"
    /\ last.value = "r2"

\* C2: once a lookup on a session has returned a role, every later lookup on
\* that session (direct or through the gate), whatever the platform would
\* answer now, issues no GET and yields that same role; the cached role is
\* never dropped or replaced.
C2_Memoized ==
    /\ \A s \in Sessions : returned[s] # None => cache[s] = returned[s]
    /\ (last.lookup # <<>> /\ last.prior # None) =>
            /\ last.gets = <<>>
            /\ last.role = last.prior
            /\ last.outcome \in {"return", "RoleError_role"}

\* A session first seen as user is looked up again while the dashboard now
\* carries the administrator marker.
C2_Witness ==
    /\ LastIsLookup
    /\ last.prior = "user"
    /\ ~last.dash.exc /\ last.dash.status = 200 /\ last.dash.marker
    /\ last.outcome = "return"
    /\ last.value = "user"

\* C3: on a session with no cached role, get_user_role issues the dashboard
\* GET first, then the management GET only when the dashboard was served
\* without the administrator marker, and nothing else; whenever both pages
\* it asks for are served it returns, and what it returns is admin with the
\* marker, otherwise manager when the management page has status 200,
\* otherwise user. (A dashboard that raises is the failure path.)
C3_Probes ==
    (LastIsLookup /\ last.cached = None) =>
        LET d == last.dash
            m == last.manage
            dashServed == ~d.exc /\ d.status < 400
        IN
        /\ Len(last.gets) \in {1, 2}
        /\ last.gets[1] = DashboardGet(last.base_url)
        /\ Len(last.gets) = 2 <=> (dashServed /\ ~d.marker)
        /\ Len(last.gets) = 2 => last.gets[2] = ManagementGet(last.base_url)
        /\ (dashServed /\ (d.marker \/ ~m.exc)) => last.outcome = "return"
        /\ last.outcome = "return" =>
                last.value = IF d.marker THEN "admin"
                             ELSE IF m.status = 200 THEN "manager"
                             ELSE "user"

\* No marker on the dashboard and a management page with status 200: manager,
\* after two GETs.
C3_Witness ==
    /\ LastIsLookup
    /\ last.cached = None
    /\ Len(last.gets) = 2
    /\ last.manage.status = 200
    /\ last.value = "manager"

\* The call carries no session at all / nothing the gate can take as base URL.
NoSessionGiven(args, kwargs) ==
    /\ kwargs.session = None
    /\ \A i \in 1..Len(args) : args[i] \notin Sessions
NoBaseUrlGiven(args, kwargs) ==
    /\ kwargs.base_url = None
    /\ \A i \in 1..(Len(args) - 1) : args[i] \notin Sessions

\* C4: a wrapped call in which the session or the base URL is not located
\* ends in the RoleError configuration error; no role lookup is made and the
\* wrapped function is not run.
C4_ConfigError ==
    (/\ LastIsWrapper
     /\ \/ last.session = None
        \/ last.base_url = None
        \/ NoSessionGiven(last.args, last.kwargs)
        \/ NoBaseUrlGiven(last.args, last.kwargs)) =>
        /\ last.outcome = "RoleError_config"
        /\ last.funcCalls = <<>>
        /\ last.gets = <<>>
        /\ last.lookup = <<>>

\* A session is passed but nothing follows it and no base_url keyword is given.
C4_Witness ==
    /\ LastIsWrapper
    /\ last.args = <<"x", "s1">>
    /\ last.kwargs = NoKw
    /\ last.outcome = "RoleError_config"
    /\ last.funcCalls = <<>>

\* C5: for every session, base URL, required role and answer of the platform,
\* the call f(session=s, base_url=u) and the call f(s, u) hand the same two
\* values to the role lookup and end alike: same error or same result, same
\* requests; and a keyword call that was made looked up exactly its keywords.
C5_KeywordAsPositional ==
    /\ last.op = "none" =>
        \A s \in Sessions, u \in Urls, R \in Roles, fres \in FuncResults,
           d \in DashAnswers, m \in ManageAnswers :
            LET pos == wrapper(R, <<s, u>>, NoKw, fres, d, m)
                kw == wrapper(R, <<>>, [session |-> s, base_url |-> u],
                              fres, d, m)
            IN /\ pos.lookup = <<s, u>>
               /\ kw.lookup = <<s, u>>
               /\ pos.outcome = kw.outcome
               /\ pos.value = kw.value
               /\ pos.role = kw.role
               /\ pos.gets = kw.gets
    /\ (LastIsWrapper /\ last.kwargs.session # None
            /\ last.kwargs.base_url # None) =>
        last.lookup = <<last.kwargs.session, last.kwargs.base_url>>

\* A keyword-only call passed the gate on a session that already had a role.
C5_Witness ==
    /\ LastIsWrapper
    /\ last.args = <<>>
    /\ last.kwargs = [session |-> "s2", base_url |-> "u1"]
    /\ last.outcome = "return"
    /\ cache["s1"] = "user"

(***************************************************************************)
(*                 Properties of get_site_info (SpecSite)                  *)
(***************************************************************************)
\* The response lacks a field of SiteInfo, or an entry of one of its two
\* lists lacks a field of its record.
OmitsField(response) ==
    \/ \E f \in SiteInfoFieldSet : f \notin DOMAIN response
    \/ /\ "functions" \in DOMAIN response
       /\ \E i \in 1..Len(response["functions"]) :
            ~(SiteFunctionFields \subseteq DOMAIN response["functions"][i])
    \/ /\ "advancedfeatures" \in DOMAIN response
       /\ \E i \in 1..Len(response["advancedfeatures"]) :
            ~(AdvancedFeatureFields
                \subseteq DOMAIN response["advancedfeatures"][i])

\* C6: when the response omits a field of SiteInfo, or of an entry of
\* functions or advancedfeatures, get_site_info raises and returns no record.
C6_NoPartialResult ==
    (siteLast.outcome # "none" /\ OmitsField(siteResp)) =>
        /\ siteLast.outcome \in {"CallError", "KeyError", "TypeError"}
        /\ siteLast.value = None

\* The response lacks only the scalar field sitename, and the call raised.
C6_Witness ==
    /\ siteLast.outcome = "TypeError"
    /\ DOMAIN siteResp = SiteInfoFieldSet \ {"sitename"}
    /\ Len(siteResp["functions"]) = 1
    /\ SiteFunctionAccepts(siteResp["functions"][1])
    /\ siteResp["advancedfeatures"] = <<>>

\* C7: get_site_info issues exactly one API call, the function
\* core_webservice_get_site_info; for a response with every documented field
\* it returns a record with every field of SiteInfo, the scalar fields equal
\* to the response's and each list holding one typed record per raw entry, in
\* order, with the entry's name/version or name/value.
C7_Reshape ==
    siteLast.outcome # "none" =>
        /\ siteLast.calls = <<"core_webservice_get_site_info">>
        /\ (siteLast.outcome # "CallError" /\ ~OmitsField(siteResp)) =>
            LET v == siteLast.value
                rf == siteResp["functions"]
                ra == siteResp["advancedfeatures"]
            IN
            /\ siteLast.outcome = "return"
            /\ DOMAIN v = SiteInfoFieldSet
            /\ \A f \in ScalarFields : v[f] = siteResp[f]
            /\ Len(v["functions"]) = Len(rf)
            /\ \A i \in 1..Len(rf) :
                  v["functions"][i] =
                      [type |-> "SiteFunction", name |-> rf[i].name,
                       version |-> rf[i].version]
            /\ Len(v["advancedfeatures"]) = Len(ra)
            /\ \A i \in 1..Len(ra) :
                  v["advancedfeatures"][i] =
                      [type |-> "AdvancedFeature", name |-> ra[i].name,
                       value |-> ra[i].value]

\* A complete response with two different functions, returned in order.
C7_Witness ==
    /\ siteLast.outcome = "return"
    /\ Len(siteLast.value["functions"]) = 2
    /\ siteLast.value["functions"][1].name = "fb"
    /\ siteLast.value["functions"][2].name = "fa"
    /\ Len(siteLast.value["advancedfeatures"]) = 1

(***************************************************************************)
(*        Properties of the example script and the fixture (SpecScript)    *)
(***************************************************************************)
MainReturnedAfterLogin ==
    program = "script" /\ pc = "done" /\ sesskey # None

\* C8: when main returns after a successful login, whatever step raised and
\* however many courses were created, delete_course with force=True has been
\* attempted for every course create_course returned to the run, also for
\* those that follow a deletion that raised.
C8_CleanupAttemptsAll ==
    MainReturnedAfterLogin =>
        \A c \in createdByScript :
            \E n \in 1..Len(deleteLog) :
                deleteLog[n].id = c /\ deleteLog[n].force

\* A run that raised after creating two courses: the first deletion raised and
\* the second course was attempted all the same.
C8_Witness ==
    /\ MainReturnedAfterLogin
    /\ errored
    /\ Cardinality(createdByScript) = 2
    /\ Len(deleteLog) = 2
    /\ ~deleteLog[1].ok
    /\ deleteLog[2].id = created_course_ids[2]

FolderUploadOps == {"add_file_to_folder", "skip"}

\* C9: the script's folder calls for a course come in the order add_folder,
\* then one step per configured file in order (add_file_to_folder, or the
\* skip of a file that is missing on disk), then rename_file_in_folder from
\* FILE_TO_RENAME, all on the cmid add_folder returned; and after add_folder,
\* the upload of both files and the rename have succeeded, the folder lists
\* the new filename and the other file, and not the old filename.
C9_FolderRename ==
    LET ops == folderOps
        nFiles == Len(FILES_TO_UPLOAD_TO_FOLDER)
    IN
    /\ \A n \in 1..Len(ops) :
        /\ ops[n].op = "add_folder" <=> n = 1
        /\ n > 1 => ops[1].ok /\ ops[n].cmid = ops[1].cmid
        /\ ops[n].op \in FolderUploadOps =>
                n <= nFiles + 1 /\ ops[n].file = FILES_TO_UPLOAD_TO_FOLDER[n - 1]
        /\ ops[n].op = "rename_file_in_folder" =>
                /\ n = nFiles + 2
                /\ ops[n].file = FILE_TO_RENAME
                /\ \A k \in 2..(n - 1) : ops[k].op \in FolderUploadOps /\ ops[k].ok
    /\ (/\ Len(ops) = nFiles + 2
        /\ \A n \in 1..Len(ops) : ops[n].ok /\ ops[n].op # "skip") =>
            /\ NEW_FILENAME_FOR_RENAME \in folders[ops[1].cmid]
            /\ FILE_TO_RENAME \notin folders[ops[1].cmid]
            /\ "sample.pdf" \in folders[ops[1].cmid]

\* Folder made, both files uploaded, test.jpg renamed.
C9_Witness ==
    /\ program = "script"
    /\ Len(folderOps) = 4
    /\ \A n \in 1..4 : folderOps[n].ok
    /\ folderOps[2].op = "add_file_to_folder"
    /\ folderOps[3].op = "add_file_to_folder"
    /\ folderOps[4].op = "rename_file_in_folder"
    /\ folders[folder_cmid] = {"sample.pdf", NEW_FILENAME_FOR_RENAME}

\* C10: a helper that posts to a sesskey-protected endpoint (course, section
\* or module creation or deletion) is called only with a non-empty session
\* key, in the example script as in the fixture.
C10_SesskeyBeforeCsrfCall ==
    lastCall.op \in CsrfOps => lastCall.sesskey \notin {"", None}

\* The fixture alone keeps to it: it skips when the login gave no session key.
FixtureGuardsSesskey ==
    (program = "fixture" /\ lastCall.op \in CsrfOps) =>
        lastCall.sesskey \notin {"", None}

\* C11: the role cached on a session, the role a session's first lookup
\* returned and the role any lookup returns (directly or to the gate) is
\* always user, manager or admin, so ROLE_HIERARCHY[current_role] in the gate
\* never raises KeyError.
C11_RolesInHierarchy ==
    /\ \A s \in Sessions : cache[s] \in Roles \cup {None}
    /\ \A s \in Sessions : returned[s] \in Roles \cup {None}
    /\ (LastIsLookup /\ last.outcome = "return") => last.value \in Roles
    /\ (LastIsWrapper /\ last.lookup # <<>> /\ last.gets # <<>>
            /\ last.outcome \notin {"ConnectionError", "HTTPError"}) =>
            /\ last.role \in Roles
            /\ cache[last.session] = last.role
    /\ (LastIsWrapper /\ last.lookup # <<>> /\ last.gets = <<>>) =>
            last.role \in Roles
    /\ last.outcome # "KeyError"

\* The gate has just found a user on a fresh session by the two probes, and a
\* session holds a cached admin.
C11_Witness ==
    /\ LastIsWrapper
    /\ last.cached = None
    /\ Len(last.gets) = 2
    /\ last.role = "user"
    /\ cache[last.session] = "user"
    /\ \E s \in Sessions : cache[s] = "admin"

\* The dashboard GET of the last lookup failed: the session had no cached
\* role, and the request raised or was answered with an error status.
DashboardFailed ==
    /\ last.op # "none"
    /\ last.lookup # <<>>
    /\ last.cached = None
    /\ (last.dash.exc \/ last.dash.status >= 400)

\* C12: when the dashboard GET of a lookup fails, by a transport error or an
\* error status, the lookup raises after that one request: the management
\* page is not asked, nothing is cached on the session, a call through the
\* gate ends with that error without running the function, and any later
\* lookup on the session starts again with the dashboard GET.
C12_NoRetryNoCache ==
    DashboardFailed =>
        /\ last.outcome = IF last.dash.exc THEN "ConnectionError" ELSE "HTTPError"
        /\ last.gets = <<DashboardGet(last.base_url)>>
        /\ last.manage = NoAnswer
        /\ cache[last.session] = None
        /\ returned[last.session] = last.prior
        /\ last.role = None
        /\ last.value = None
        /\ last.funcCalls = <<>>
        /\ \A u \in Urls, d \in DashAnswers, m \in ManageAnswers :
                \E r \in {get_user_role(last.session, u, d, m)} :
                    /\ r.gets # <<>>
                    /\ Head(r.gets) = DashboardGet(u)

\* A gated call whose dashboard GET was answered 403.
C12_Witness ==
    /\ LastIsWrapper
    /\ last.args = <<"s1", "u1">>
    /\ last.dash.status = 403
    /\ last.outcome = "HTTPError"
    /\ last.funcCalls = <<>>
    /\ cache["s1"] = None

\* The positions of step e among the steps of the last wrapped call.
EventAt(e) == {n \in 1..Len(last.events) : last.events[n] = e}

\* C13: in every wrapped call the function starts only after the role lookup
\* and, after it, the rank comparison are done, and nothing follows it; it
\* runs exactly once when the looked-up role reaches the required rank, and
\* not at all when the call ends in RoleError, be it for the role or for a
\* session or base URL that was not found.
C13_CheckBeforeRun ==
    LastIsWrapper =>
        /\ Cardinality(EventAt("func")) = Len(last.funcCalls)
        /\ \A n \in EventAt("func") :
                /\ n = Len(last.events)
                /\ \E i \in EventAt("get_user_role"), k \in EventAt("compare") :
                        i < k /\ k < n
        /\ (last.role \in Roles
                /\ ROLE_HIERARCHY[last.role] >= ROLE_HIERARCHY[last.required]) =>
                /\ Len(last.funcCalls) = 1
                /\ last.outcome = "return"
        /\ last.outcome \in {"RoleError_role", "RoleError_config"} =>
                /\ last.funcCalls = <<>>
                /\ EventAt("func") = {}
        /\ last.outcome = "RoleError_role" =>
                last.events = <<"get_user_role", "compare">>
        /\ last.outcome = "RoleError_config" => last.events = <<>>

\* A manager, found by the two probes, passes a gate that requires manager:
\* lookup, comparison, then the one call of the function.
C13_Witness ==
    /\ LastIsWrapper
    /\ last.required = "manager"
    /\ last.role = "manager"
    /\ Len(last.gets) = 2
    /\ last.events = <<"get_user_role", "compare", "func">>
    /\ Len(last.funcCalls) = 1
    /\ last.outcome = "return"

\* The positions of the positional arguments of the last call that are Sessions.
SessionPositions == {n \in 1..Len(last.args) : last.args[n] \in Sessions}
FirstSessionPosition ==
    CHOOSE n \in SessionPositions : \A k \in SessionPositions : n <= k

\* The last call ended in RoleError before any lookup and without the function.
RefusedUnlocated ==
    /\ last.outcome = "RoleError_config"
    /\ last.lookup = <<>>
    /\ last.gets = <<>>
    /\ last.funcCalls = <<>>

\* C14: without a session keyword the gate takes the first positional Session
\* as the session, and without a base_url keyword the positional argument
\* right after the session as the base URL. So a call with the session by
\* keyword only and the base URL positional, and a call whose first positional
\* Session is its last positional argument and that has no base_url keyword,
\* end in RoleError with no lookup and the function not run; a positional
\* session with a base_url keyword is looked up with exactly those two.
C14_PositionalLookup ==
    LastIsWrapper =>
        /\ (last.kwargs.session = None /\ SessionPositions # {}) =>
                last.session = last.args[FirstSessionPosition]
        /\ (last.kwargs.session = None /\ last.kwargs.base_url = None
                /\ SessionPositions # {}
                /\ FirstSessionPosition < Len(last.args)) =>
                /\ last.base_url = last.args[FirstSessionPosition + 1]
                /\ last.lookup = <<last.args[FirstSessionPosition],
                                   last.args[FirstSessionPosition + 1]>>
        /\ (last.kwargs.session # None /\ last.kwargs.base_url = None
                /\ \A n \in 1..Len(last.args) :
                        last.args[n] # last.kwargs.session) =>
                RefusedUnlocated
        /\ (last.kwargs.session = None /\ last.kwargs.base_url = None
                /\ SessionPositions # {}
                /\ FirstSessionPosition = Len(last.args)) =>
                RefusedUnlocated
        /\ (last.kwargs.session = None /\ last.kwargs.base_url # None
                /\ SessionPositions # {}) =>
                /\ last.outcome # "RoleError_config"
                /\ last.lookup = <<last.args[FirstSessionPosition],
                                   last.kwargs.base_url>>

\* func(u1, session=s1): the session is found, the base URL is not.
C14_Witness ==
    /\ LastIsWrapper
    /\ last.args = <<"u1">>
    /\ last.kwargs = [session |-> "s1", base_url |-> None]
    /\ last.session = "s1"
    /\ last.base_url = None
    /\ RefusedUnlocated

\* The helpers main calls on a course it has created, before the cleanup.
CourseStepOps ==
    {"get_course", "create_section", "add_label", "add_assign", "add_scorm",
     "add_folder", "add_file_to_folder", "rename_file_in_folder"}

\* C15: in the example script the list kept for the cleanup holds, at every
\* moment, exactly the courses created so far, in the order of their creation,
\* so a course is on it before any later helper is called on it; no deletion
\* is attempted before the finally clause; there the deletions follow the
\* list from its start, one attempt per entry, and when main has returned
\* after a login, by whatever path, every entry has had its one attempt, and
\* none was made when no course was created.
C15_RecordThenCleanInOrder ==
    program = "script" =>
        /\ {created_course_ids[n] : n \in 1..Len(created_course_ids)}
                = createdByScript
        /\ \A n \in 1..Len(created_course_ids) :
                \A k \in (n + 1)..Len(created_course_ids) :
                    created_course_ids[n] < created_course_ids[k]
        /\ lastCall.op \in CourseStepOps =>
                /\ created_course_ids # <<>>
                /\ course_id = created_course_ids[Len(created_course_ids)]
        /\ pc \notin {"cleanup", "done"} => deleteLog = <<>>
        /\ Len(deleteLog) <= Len(created_course_ids)
        /\ \A n \in 1..Len(deleteLog) :
                /\ deleteLog[n].id = created_course_ids[n]
                /\ deleteLog[n].force
        /\ MainReturnedAfterLogin =>
                Len(deleteLog) = Len(created_course_ids)
        /\ createdByScript = {} => deleteLog = <<>>

\* main returned without an error after creating two courses, the second of
\* which was skipped for want of a first section; both were attempted, in
\* the order of their creation.
C15_Witness ==
    /\ MainReturnedAfterLogin
    /\ ~errored
    /\ Len(created_course_ids) = 2
    /\ folderOps = <<>>
    /\ Len(deleteLog) = 2
    /\ deleteLog[1].id = created_course_ids[1]
    /\ deleteLog[2].id = created_course_ids[2]
    /\ created_course_ids[1] < created_course_ids[2]

====
